---- MODULE Spec2Model ----
(***************************************************************************)
(* Model of the early-stopping controller (utils/cfunctions.py and         *)
(* reg_train.py), of the training loop of reg_train.py and of the          *)
(* selective-prediction metrics of utils/ue_metric_func.py.                *)
(*                                                                         *)
(* Losses are integers; score = -val_loss.  An optional value (Python      *)
(* None) is the empty sequence, a present value v is <<v>>.  A model       *)
(* snapshot is identified by a natural number: in the free-running         *)
(* controller specification it is the index of the observe call that       *)
(* passed it, in the training loop it is the number of training epochs     *)
(* the model went through.  Quotients are exact fractions <<num, den>>     *)
(* in lowest terms.                                                        *)
(***************************************************************************)
EXTENDS Integers, Sequences, FiniteSets, TLC

VARIABLES
    \* EarlyStopping object and the file at self.path
    variant, patience, counter, best_score, early_stop, val_loss_min,
    ckpt, writes, obs,
    \* reg_train.main
    pc, epoch, n_epochs, model, S, s_start, loss_all, nTrain, nCalib,
    \* ue_metric_func: calc_rcc_auc, calc_rpp
    conf, risk, rcc_out, rpp_out,
    \* ue_metric_func: calc_risk, calc_roc_auc
    pred, true, reg_or_class, low, high, binary, risk_out, roc_out,
    \* eval_ue.main
    seed, missing, five_fold_results, block, apc, fold,
    fresults_rcc, fresults_rpp, fresults_roc, fresults_rcc_y,
    out_files, written, last_call, agg_err,
    \* class_eval.main, mix_test.main
    num_labels, exp_logits, mix_score, class_results, mix_results

esVars == <<variant, patience, counter, best_score, early_stop, val_loss_min,
            ckpt, writes, obs>>
loopVars == <<pc, epoch, n_epochs, model, S, s_start, loss_all, nTrain, nCalib>>
metricVars == <<conf, risk, rcc_out, rpp_out>>
riskVars == <<pred, true, reg_or_class, low, high, binary, risk_out, roc_out>>
accVars == <<fresults_rcc, fresults_rpp, fresults_roc, fresults_rcc_y>>
aggVars == <<seed, missing, five_fold_results, block, apc, fold, accVars,
             out_files, written, last_call, agg_err>>
evalVars == <<num_labels, exp_logits, mix_score, class_results, mix_results>>
restVars == <<riskVars, aggVars, evalVars>>
vars == <<esVars, loopVars, metricVars, restVars>>

----------------------------------------------------------------------------
\* Bounds

MinLoss == 3
MaxLoss == 5
MaxObs == 4
MaxPatience == 3
MaxEpochs == 3
MaxS == 2
MaxN == 3
MaxConf == 3
MaxRisk == 1
MaxM == 2
MaxHigh == 2
\* a normalized score is k / ScoreDen for k in 0..ScoreDen
ScoreDen == 2
MaxSeed == 2
\* examples per fold record
FoldLen == 2
\* classes, size of exp(logit) and examples of an evaluated test set
MaxLabels == 2
MaxW == 3
MaxEx == 1

Losses == MinLoss..MaxLoss
SValues == 1..MaxS
Confs == 1..MaxConf
Risks == 0..MaxRisk
Scores == 0..ScoreDen
\* get_score_range(prompt_id): integer grading ranges <<low, high>>
Ranges == {lh \in (0..1) \X (1..MaxHigh) : lh[1] < lh[2]}

\* np.Inf, the initial val_loss_min: larger than every loss
Inf == 1000000

None == <<>>
Some(v) == <<v>>

Last(s) == s[Len(s)]
Front(s) == SubSeq(s, 1, Len(s) - 1)

----------------------------------------------------------------------------
\* EarlyStopping

\* EarlyStopping.__init__ (identical in both files)
ESInit(p) ==
    /\ patience = p
    /\ counter = 0
    /\ best_score = None
    /\ early_stop = FALSE
    /\ val_loss_min = Inf
    /\ ckpt = None
    /\ writes = 0
    /\ obs = <<>>

\* torch.save(model.state_dict(), self.path): overwrites the one file
torch_save(m) ==
    /\ ckpt' = Some(m)
    /\ writes' = writes + 1

\* variant of checkpoint that does not record the loss it saved at
checkpoint_keeps_min(val_loss, m) ==
    /\ torch_save(m)
    /\ UNCHANGED val_loss_min

\* EarlyStopping.checkpoint
checkpoint(val_loss, m) ==
    /\ torch_save(m)
    /\ val_loss_min' = val_loss

\* variant of NotImproved in which a tie counts as an improvement
NotImproved_strict(score) == score < best_score[1]

\* the test `score <= self.best_score` of the elif branch
NotImproved(score) == score <= best_score[1]

\* variant of CountUp that does nothing once the controller has stopped
CountUp_frozen ==
    IF early_stop
    THEN UNCHANGED <<counter, early_stop, best_score, val_loss_min, ckpt, writes>>
    ELSE /\ counter' = counter + 1
         /\ early_stop' = (counter + 1 >= patience)
         /\ UNCHANGED <<best_score, val_loss_min, ckpt, writes>>

\* variant of CountUp that stops one observation late
CountUp_late ==
    /\ counter' = counter + 1
    /\ early_stop' = IF counter + 1 > patience THEN TRUE ELSE early_stop
    /\ UNCHANGED <<best_score, val_loss_min, ckpt, writes>>

\* the elif branch: counter += 1; if counter >= patience: early_stop = True
CountUp ==
    /\ counter' = counter + 1
    /\ early_stop' = IF counter + 1 >= patience THEN TRUE ELSE early_stop
    /\ UNCHANGED <<best_score, val_loss_min, ckpt, writes>>

\* variant of Improve that forgets to reset the counter
Improve_keeps_counter(val_loss, m) ==
    /\ best_score' = Some(-val_loss)
    /\ checkpoint(val_loss, m)
    /\ UNCHANGED <<counter, early_stop>>

\* variant of Improve that re-arms the controller on an improvement
Improve_clears_stop(val_loss, m) ==
    /\ best_score' = Some(-val_loss)
    /\ checkpoint(val_loss, m)
    /\ counter' = 0
    /\ early_stop' = FALSE

\* the else branch: best_score = score; checkpoint; counter = 0
Improve(val_loss, m) ==
    /\ best_score' = Some(-val_loss)
    /\ checkpoint(val_loss, m)
    /\ counter' = 0
    /\ UNCHANGED early_stop

\* the first-call branch of utils/cfunctions.py: saves the model
FirstCall_cfunctions(val_loss, m) ==
    /\ best_score' = Some(-val_loss)
    /\ val_loss_min' = val_loss
    /\ torch_save(m)
    /\ UNCHANGED <<counter, early_stop>>

\* the first-call branch of reg_train.py: no save
FirstCall_reg_train(val_loss, m) ==
    /\ best_score' = Some(-val_loss)
    /\ val_loss_min' = val_loss
    /\ UNCHANGED <<counter, early_stop, ckpt, writes>>

\* utils.cfunctions.EarlyStopping.__call__
cfunctions_call(val_loss, m) ==
    /\ IF best_score = None THEN FirstCall_cfunctions(val_loss, m)
       ELSE IF NotImproved(-val_loss) THEN CountUp
       ELSE Improve(val_loss, m)
    /\ obs' = Append(obs, val_loss)

\* reg_train.EarlyStopping.__call__
reg_train_call(val_loss, m) ==
    /\ IF best_score = None THEN FirstCall_reg_train(val_loss, m)
       ELSE IF NotImproved(-val_loss) THEN CountUp
       ELSE Improve(val_loss, m)
    /\ obs' = Append(obs, val_loss)

----------------------------------------------------------------------------
\* The controller driven by arbitrary observe calls

IdleLoop ==
    /\ pc = "idle" /\ epoch = 0 /\ n_epochs = 0 /\ model = 0
    /\ S = 1 /\ s_start = None /\ loss_all = None /\ nTrain = 0 /\ nCalib = 0

IdleMetrics ==
    /\ conf = <<>> /\ risk = <<>> /\ rcc_out = None /\ rpp_out = None

IdleRisk ==
    /\ pred = <<>> /\ true = <<>> /\ reg_or_class = "reg" /\ low = 0 /\ high = 1
    /\ binary = TRUE /\ risk_out = None /\ roc_out = None

IdleAgg ==
    /\ seed = 0 /\ missing = None /\ five_fold_results = <<>> /\ block = 0
    /\ apc = "idle" /\ fold = 0
    /\ fresults_rcc = <<>> /\ fresults_rpp = <<>> /\ fresults_roc = <<>>
    /\ fresults_rcc_y = <<>>
    /\ out_files = <<>> /\ written = <<>> /\ last_call = None /\ agg_err = None

IdleEval ==
    /\ num_labels = 0 /\ exp_logits = <<>> /\ mix_score = <<>>
    /\ class_results = None /\ mix_results = None

IdleRest == IdleRisk /\ IdleAgg /\ IdleEval

Init ==
    /\ variant \in {"cfunctions", "reg_train"}
    /\ \E p \in 0..MaxPatience : ESInit(p)
    /\ IdleLoop
    /\ IdleMetrics
    /\ IdleRest

ObserveCfunctions ==
    /\ variant = "cfunctions"
    /\ Len(obs) < MaxObs
    /\ \E val_loss \in Losses : cfunctions_call(val_loss, Len(obs) + 1)
    /\ UNCHANGED <<variant, patience, loopVars, metricVars, restVars>>

ObserveRegTrain ==
    /\ variant = "reg_train"
    /\ Len(obs) < MaxObs
    /\ \E val_loss \in Losses : reg_train_call(val_loss, Len(obs) + 1)
    /\ UNCHANGED <<variant, patience, loopVars, metricVars, restVars>>

Next == ObserveCfunctions \/ ObserveRegTrain

Spec == Init /\ [][Next]_vars

----------------------------------------------------------------------------
\* reg_train.main: the training loop

\* state at the `for epoch in range(cfg.training.n_epochs)` line: the
\* controller and sigma_scaler = Scaler(init_S=1.0) have been constructed
TrainInit ==
    /\ variant = "reg_train"
    /\ \E p \in 0..MaxPatience : ESInit(p)
    /\ pc = "for"
    /\ epoch = 0
    /\ n_epochs \in 0..MaxEpochs
    /\ model = 0
    /\ S = 1
    /\ s_start = None
    /\ loss_all = None
    /\ nTrain = 0
    /\ nCalib = 0
    /\ IdleMetrics
    /\ IdleRest

\* loop head with an epoch left, then the inner loop over train_dataloader:
\* the optimizer steps change the model in place
TrainEpoch ==
    /\ pc = "for"
    /\ epoch < n_epochs
    /\ model' = model + 1
    /\ nTrain' = nTrain + 1
    /\ pc' = "calibrate"
    /\ UNCHANGED <<esVars, epoch, n_epochs, S, s_start, loss_all, nCalib, metricVars, restVars>>

\* loop head with range(n_epochs) exhausted
LoopExit ==
    /\ pc = "for"
    /\ epoch >= n_epochs
    /\ pc' = "finish"
    /\ UNCHANGED <<esVars, epoch, n_epochs, model, S, s_start, loss_all,
                   nTrain, nCalib, metricVars, restVars>>

\* calibrate_step: s_opt = LBFGS([sigma_scaler.S]); s_opt.step(closure).
\* The fit starts from the current S and ends at a value fixed by the
\* dev-set predictions, which the model leaves open.
Calibrate ==
    /\ pc = "calibrate"
    /\ s_start' = Some(S)
    /\ S' \in SValues
    /\ nCalib' = nCalib + 1
    /\ pc' = "validate"
    /\ UNCHANGED <<esVars, epoch, n_epochs, model, loss_all, nTrain, metricVars, restVars>>

\* the loop over dev_dataloader summing regvarloss into loss_all
Validate ==
    /\ pc = "validate"
    /\ \E l \in Losses : loss_all' = Some(l)
    /\ pc' = "observe"
    /\ UNCHANGED <<esVars, epoch, n_epochs, model, S, s_start, nTrain, nCalib,
                   metricVars, restVars>>

\* earlystopping(loss_all, model)
ObserveStep ==
    /\ pc = "observe"
    /\ reg_train_call(loss_all[1], model)
    /\ pc' = "check"
    /\ UNCHANGED <<variant, patience, epoch, n_epochs, model, S, s_start,
                   loss_all, nTrain, nCalib, metricVars, restVars>>

\* variant of BreakCheck that never leaves the loop early
BreakCheck_never ==
    /\ pc = "check"
    /\ epoch' = epoch + 1
    /\ pc' = "for"
    /\ UNCHANGED <<esVars, n_epochs, model, S, s_start, loss_all, nTrain,
                   nCalib, metricVars, restVars>>

\* if earlystopping.early_stop == True: break
BreakCheck ==
    /\ pc = "check"
    /\ IF early_stop
       THEN pc' = "finish" /\ UNCHANGED epoch
       ELSE pc' = "for" /\ epoch' = epoch + 1
    /\ UNCHANGED <<esVars, n_epochs, model, S, s_start, loss_all, nTrain,
                   nCalib, metricVars, restVars>>

\* wandb.finish()
Finish ==
    /\ pc = "finish"
    /\ pc' = "done"
    /\ UNCHANGED <<esVars, epoch, n_epochs, model, S, s_start, loss_all,
                   nTrain, nCalib, metricVars, restVars>>

TrainNext ==
    \/ TrainEpoch
    \/ LoopExit
    \/ Calibrate
    \/ Validate
    \/ ObserveStep
    \/ BreakCheck
    \/ Finish

TrainSpec == TrainInit /\ [][TrainNext]_vars

\* the loop is sequential code that keeps running until main returns
FairTrainSpec == TrainSpec /\ WF_vars(TrainNext)

----------------------------------------------------------------------------
\* utils/ue_metric_func.py

RECURSIVE GCD(_, _)
GCD(a, b) == IF b = 0 THEN a ELSE GCD(b, a % b)

\* Python's true division a / b of non-negative a by positive b, kept exact
Frac(a, b) == LET g == GCD(a, b) IN <<a \div g, b \div g>>

\* q1 + q2
FracAdd(q1, q2) == Frac(q1[1] * q2[2] + q2[1] * q1[2], q1[2] * q2[2])

RECURSIVE Reverse(_)
Reverse(s) == IF s = <<>> THEN <<>> ELSE Append(Reverse(Tail(s)), Head(s))

RECURSIVE Zip(_, _)
\* list(zip(conf, risk)): stops at the shorter argument
Zip(a, b) ==
    IF a = <<>> \/ b = <<>> THEN <<>>
    ELSE <<<<Head(a), Head(b)>>>> \o Zip(Tail(a), Tail(b))

\* variant of Insert that puts x in front of the elements with an equal key
Insert_before_ties(t, x) ==
    LET k == Cardinality({i \in 1..Len(t) : t[i][1] < x[1]})
    IN SubSeq(t, 1, k) \o <<x>> \o SubSeq(t, k + 1, Len(t))

\* one step of the insertion that list.sort runs on a short list: x goes
\* behind every element whose key (x[0]) is <= its own
Insert(t, x) ==
    LET k == Cardinality({i \in 1..Len(t) : t[i][1] <= x[1]})
    IN SubSeq(t, 1, k) \o <<x>> \o SubSeq(t, k + 1, Len(t))

RECURSIVE StableSortAsc(_)
\* the stable ascending sort by key=lambda x: x[0]
StableSortAsc(s) ==
    IF s = <<>> THEN <<>> ELSE Insert(StableSortAsc(Front(s)), Last(s))

\* variant of ListSort that gets the descending order by sorting ascending
\* and reversing the result
ListSort_reverse_after(s, reverse) ==
    IF reverse THEN Reverse(StableSortAsc(s)) ELSE StableSortAsc(s)

\* list.sort(key=lambda x: x[0], reverse=...): for reverse=True the list is
\* reversed, sorted ascending and reversed again, which keeps equal keys in
\* their original order
ListSort(s, reverse) ==
    IF reverse THEN Reverse(StableSortAsc(Reverse(s))) ELSE StableSortAsc(s)

RECURSIVE CumulativeRisk(_)
\* cumulative_risk of calc_rcc_auc over the sorted pairs
CumulativeRisk(cr_pair) ==
    IF Len(cr_pair) = 1 THEN <<cr_pair[1][2]>>
    ELSE LET c == CumulativeRisk(Front(cr_pair))
         IN Append(c, Last(cr_pair)[2] + Last(c))

RECURSIVE AucLoop(_, _)
\* the value of auc after k rounds of the second loop of calc_rcc_auc
AucLoop(cumulative_risk, k) ==
    IF k = 0 THEN <<0, 1>>
    ELSE FracAdd(AucLoop(cumulative_risk, k - 1), Frac(cumulative_risk[k], k))

RccError(e) == [err |-> e, auc |-> <<0, 1>>, points_x |-> <<>>, points_y |-> <<>>]

calc_rcc_auc(c, r) ==
    LET n == Len(c)
        cr_pair == ListSort(Zip(c, r), TRUE)
    IN IF Len(cr_pair) = 0 THEN RccError("IndexError")        \* cr_pair[0]
       ELSE IF Len(cr_pair) < n THEN RccError("IndexError")   \* cr_pair[i]
       ELSE LET cumulative_risk == CumulativeRisk(cr_pair)
            IN [err |-> "none",
                auc |-> AucLoop(cumulative_risk, n),
                points_x |-> [k \in 1..n |-> Frac(k, n)],
                points_y |-> [k \in 1..n |-> Frac(cumulative_risk[k], k)]]

\* variant of RppCount that counts the pairs with the larger risk first
RppCount_greater(cr_pair, n) ==
    Cardinality({ij \in (1..n) \X (1..n) :
                    ij[1] <= ij[2] /\ cr_pair[ij[1]][2] > cr_pair[ij[2]][2]})

\* cnt after the double loop of calc_rpp
RppCount(cr_pair, n) ==
    Cardinality({ij \in (1..n) \X (1..n) :
                    ij[1] <= ij[2] /\ cr_pair[ij[1]][2] < cr_pair[ij[2]][2]})

RppError(e) == [err |-> e, value |-> <<0, 1>>]

calc_rpp(c, r) ==
    LET n == Len(c)
        cr_pair == ListSort(Zip(c, r), FALSE)
    IN IF n = 0 THEN RppError("ZeroDivisionError")            \* cnt / 0
       ELSE IF Len(cr_pair) < n THEN RppError("IndexError")   \* cr_pair[j]
       ELSE [err |-> "none", value |-> Frac(RppCount(cr_pair, n), n * n)]

RECURSIVE SeqsUpTo(_, _)
\* the sequences over V of length 0..n
SeqsUpTo(V, n) ==
    IF n = 0 THEN {<<>>}
    ELSE LET shorter == SeqsUpTo(V, n - 1)
         IN shorter \cup {Append(q, v) : q \in {t \in shorter : Len(t) = n - 1}, v \in V}

IdleController ==
    /\ variant = "none"
    /\ ESInit(0)

MetricInit ==
    /\ conf \in SeqsUpTo(Confs, MaxN)
    /\ risk \in SeqsUpTo(Risks, MaxN)
    /\ rcc_out = None
    /\ rpp_out = None
    /\ IdleController
    /\ IdleLoop
    /\ IdleRest

CallRccAuc ==
    /\ rcc_out = None
    /\ rcc_out' = Some(calc_rcc_auc(conf, risk))
    /\ UNCHANGED <<conf, risk, rpp_out, esVars, loopVars, restVars>>

CallRpp ==
    /\ rpp_out = None
    /\ rpp_out' = Some(calc_rpp(conf, risk))
    /\ UNCHANGED <<conf, risk, rcc_out, esVars, loopVars, restVars>>

MetricNext == CallRccAuc \/ CallRpp

MetricSpec == MetricInit /\ [][MetricNext]_vars

----------------------------------------------------------------------------
\* utils/ue_metric_func.py: calc_risk and calc_roc_auc,
\* utils/cfunctions.py: score_f2int

\* .astype('int32') of an integer-valued array: the grades and class indices
\* of the model lie far inside the 32-bit range, where the cast keeps the
\* value
Int32(x) == IF -2147483647 <= x /\ x <= 2147483647 THEN x ELSE 0

\* variant of NpRound that rounds a half up
NpRound_half_up(n, d) ==
    LET q == n \div d
        r == n % d
    IN IF 2 * r < d THEN q ELSE q + 1

\* np.round of n / d (d > 0): to the nearest integer, a half to the even one
NpRound(n, d) ==
    LET q == n \div d
        r == n % d
    IN IF 2 * r < d THEN q
       ELSE IF 2 * r > d THEN q + 1
       ELSE IF q % 2 = 0 THEN q ELSE q + 1

\* score_f2int: np.round(score * (high - low) + low).astype('int32'), for
\* scores given in units of 1 / ScoreDen
score_f2int(score, lo, hi) ==
    [i \in 1..Len(score) |->
        Int32(NpRound(score[i] * (hi - lo) + lo * ScoreDen, ScoreDen))]

\* numpy broadcasting of two one-dimensional arrays
Broadcastable(a, b) == Len(a) = Len(b) \/ Len(a) = 1 \/ Len(b) = 1
BroadcastLen(a, b) == IF Len(a) = 1 THEN Len(b) ELSE Len(a)
At(a, i) == IF Len(a) = 1 THEN a[1] ELSE a[i]

RiskError(e) == [err |-> e, value |-> <<>>]

\* calc_risk; an operand pair that does not broadcast raises
calc_risk(p, t, mode, lo, hi, bin) ==
    IF bin
    THEN LET int_scores == IF mode = "reg" THEN score_f2int(p, lo, hi)
                           ELSE [i \in 1..Len(p) |-> Int32(p[i])]
             int_true == IF mode = "reg" THEN score_f2int(t, lo, hi)
                         ELSE [i \in 1..Len(t) |-> Int32(t[i])]
         IN IF ~Broadcastable(int_scores, int_true) THEN RiskError("ValueError")
            ELSE [err |-> "none",
                  value |-> [i \in 1..BroadcastLen(int_scores, int_true) |->
                      IF At(int_scores, i) # At(int_true, i) THEN 1 ELSE 0]]
    ELSE IF ~Broadcastable(p, t) THEN RiskError("ValueError")
         ELSE [err |-> "none",
               value |-> [i \in 1..BroadcastLen(p, t) |->
                   (At(p, i) - At(t, i)) * (At(p, i) - At(t, i))]]

RocError(e) == [err |-> e, value |-> <<0, 1>>]

\* sklearn.metrics.roc_auc_score(y_true, y_score) for boolean y_true: the
\* share of (positive, negative) pairs that the score orders correctly, a
\* tie counting one half; it raises when y_true has a single class or the
\* lengths differ
roc_auc_score(y_true, y_score) ==
    LET n == Len(y_true)
        pos == {i \in 1..n : y_true[i]}
        neg == {i \in 1..n : ~y_true[i]}
    IN IF Len(y_score) # n THEN RocError("ValueError")
       ELSE IF pos = {} \/ neg = {} THEN RocError("ValueError")
       ELSE LET above == Cardinality({pn \in pos \X neg : y_score[pn[1]] > y_score[pn[2]]})
                ties == Cardinality({pn \in pos \X neg : y_score[pn[1]] = y_score[pn[2]]})
            IN [err |-> "none",
                value |-> Frac(2 * above + ties,
                               2 * Cardinality(pos) * Cardinality(neg))]

\* variant of Matches that marks the wrong predictions
Matches_inverted(a, b) ==
    [i \in 1..BroadcastLen(a, b) |-> At(a, i) # At(b, i)]

\* int_scores == int_true
Matches(a, b) ==
    [i \in 1..BroadcastLen(a, b) |-> At(a, i) = At(b, i)]

\* calc_roc_auc
calc_roc_auc(p, t, c, mode, lo, hi) ==
    LET int_scores == IF mode = "reg" THEN score_f2int(p, lo, hi) ELSE p
        int_true == IF mode = "reg" THEN score_f2int(t, lo, hi) ELSE t
    IN IF ~Broadcastable(int_scores, int_true) THEN RocError("ValueError")
       ELSE roc_auc_score(Matches(int_scores, int_true), c)

RiskInit ==
    /\ pred \in SeqsUpTo(Scores, MaxM)
    /\ true \in SeqsUpTo(Scores, MaxM)
    /\ conf \in {c \in SeqsUpTo(0..1, MaxM) : Len(c) = Len(pred)}
    /\ reg_or_class \in {"reg", "class"}
    /\ \E lh \in Ranges : low = lh[1] /\ high = lh[2]
    /\ binary \in BOOLEAN
    /\ risk_out = None
    /\ roc_out = None
    /\ risk = <<>> /\ rcc_out = None /\ rpp_out = None
    /\ IdleController
    /\ IdleLoop
    /\ IdleAgg
    /\ IdleEval

CallRisk ==
    /\ risk_out = None
    /\ risk_out' = Some(calc_risk(pred, true, reg_or_class, low, high, binary))
    /\ UNCHANGED <<pred, true, reg_or_class, low, high, binary, roc_out,
                   esVars, loopVars, metricVars, aggVars, evalVars>>

CallRocAuc ==
    /\ roc_out = None
    /\ roc_out' = Some(calc_roc_auc(pred, true, conf, reg_or_class, low, high))
    /\ UNCHANGED <<pred, true, reg_or_class, low, high, binary, risk_out,
                   esVars, loopVars, metricVars, aggVars, evalVars>>

RiskNext == CallRisk \/ CallRocAuc

RiskSpec == RiskInit /\ [][RiskNext]_vars

----------------------------------------------------------------------------
\* eval_ue.main: the evaluation of every method over the fold records

\* range(5)
NFolds == 5

\* The method blocks of main in program order.  name: the file name under
\* save_dir_path; group: the records in five_fold_results when the block
\* runs; load: the block is preceded by a loop that reloads
\* five_fold_results; mode: the reg_or_class argument; score: the field read
\* into pred ("logits" standing for np.argmax(foldr['logits'], axis=-1));
\* unc: the field read into uncertainty; negate: uncertainty = -foldr[unc].
Blocks == <<
    [name |-> "simplevar", group |-> "reg", load |-> TRUE, mode |-> "reg",
     score |-> "score", unc |-> "calib_var", negate |-> FALSE],
    [name |-> "reg_trust_score", group |-> "reg", load |-> FALSE, mode |-> "reg",
     score |-> "score", unc |-> "trust_score", negate |-> TRUE],
    [name |-> "reg_dp", group |-> "reg", load |-> FALSE, mode |-> "reg",
     score |-> "mcdp_score", unc |-> "calib_mcdp_var", negate |-> FALSE],
    [name |-> "reg_mul", group |-> "reg", load |-> FALSE, mode |-> "reg",
     score |-> "ense_score", unc |-> "calib_ense_var", negate |-> FALSE],
    [name |-> "MP", group |-> "class", load |-> TRUE, mode |-> "class",
     score |-> "logits", unc |-> "MP", negate |-> TRUE],
    [name |-> "class_trust_score", group |-> "class", load |-> FALSE, mode |-> "class",
     score |-> "logits", unc |-> "trust_score", negate |-> TRUE],
    [name |-> "class_dp_MP", group |-> "class", load |-> FALSE, mode |-> "class",
     score |-> "mcdp_score", unc |-> "mcdp_MP", negate |-> TRUE],
    [name |-> "class_dp_entropy", group |-> "class", load |-> FALSE, mode |-> "class",
     score |-> "mcdp_score", unc |-> "mcdp_entropy", negate |-> FALSE],
    [name |-> "class_dp_epistemic", group |-> "class", load |-> FALSE, mode |-> "class",
     score |-> "mcdp_score", unc |-> "mcdp_epi_uncertainty", negate |-> FALSE],
    [name |-> "class_mul_MP", group |-> "class", load |-> FALSE, mode |-> "class",
     score |-> "ense_score", unc |-> "ense_MP", negate |-> TRUE],
    [name |-> "class_mul_entropy", group |-> "class", load |-> FALSE, mode |-> "class",
     score |-> "ense_score", unc |-> "ense_entropy", negate |-> FALSE],
    [name |-> "class_mul_epistemic", group |-> "class", load |-> FALSE, mode |-> "class",
     score |-> "ense_score", unc |-> "ense_epi_uncertainty", negate |-> FALSE],
    [name |-> "mixconf", group |-> "mix", load |-> TRUE, mode |-> "reg",
     score |-> "score", unc |-> "mix_conf", negate |-> TRUE],
    [name |-> "mixMP", group |-> "mix", load |-> FALSE, mode |-> "reg",
     score |-> "score", unc |-> "MP", negate |-> TRUE] >>

NBlocks == Len(Blocks)
Names == {Blocks[b].name : b \in 1..NBlocks}
Groups == {"reg", "class", "mix"}

\* the fields of the pred_results file of a group, in a fixed order
FieldList(g) ==
    IF g = "reg" THEN
        <<"labels", "score", "calib_var", "trust_score", "mcdp_score",
          "calib_mcdp_var", "ense_score", "calib_ense_var">>
    ELSE IF g = "class" THEN
        <<"labels", "logits", "MP", "trust_score", "mcdp_score", "mcdp_MP",
          "mcdp_entropy", "mcdp_epi_uncertainty", "ense_score", "ense_MP",
          "ense_entropy", "ense_epi_uncertainty">>
    ELSE <<"labels", "score", "mix_conf", "MP">>

Fields(g) == {FieldList(g)[k] : k \in 1..Len(FieldList(g))}
FieldIndex(g, fld) == CHOOSE k \in 1..Len(FieldList(g)) : FieldList(g)[k] = fld

\* Contents of the pred_results files.  They are input: the model fixes one
\* family of records per seed sd.  Labels and predicted scores sit at the
\* two ends of the range, so a wrong prediction is wrong after rounding too.
LabelAt(g, f, sd, i) ==
    IF g = "class" THEN (i + f + sd) % 2
    ELSE IF (i + f + sd) % 2 = 0 THEN 0 ELSE ScoreDen

WrongLabel(g, l) == IF g = "class" THEN 1 - l ELSE ScoreDen - l

\* "score" / "logits" predict example 1 right and the others wrong,
\* "mcdp_score" the other way round, "ense_score" only the last example
\* right for seed 1 and every example right for the other seeds
PredAt(g, fld, f, sd, i) ==
    LET l == LabelAt(g, f, sd, i)
        right == IF fld \in {"score", "logits"} THEN i = 1
                 ELSE IF fld = "mcdp_score" THEN i # 1
                 ELSE sd # 1 \/ i = FoldLen
    IN IF right THEN l ELSE WrongLabel(g, l)

\* an uncertainty or confidence reading: positive, different per field
ReadingAt(g, fld, f, sd, i) == ((i * (FieldIndex(g, fld) + 1) + f + sd) % 4) + 1

FieldData(g, fld, f, sd) ==
    IF fld = "labels" THEN [i \in 1..FoldLen |-> LabelAt(g, f, sd, i)]
    ELSE IF fld = "logits" THEN
        [i \in 1..FoldLen |->
            [c \in 1..2 |-> IF c - 1 = PredAt(g, fld, f, sd, i) THEN 2 ELSE 1]]
    ELSE IF fld \in {"score", "mcdp_score", "ense_score"} THEN
        [i \in 1..FoldLen |-> PredAt(g, fld, f, sd, i)]
    ELSE [i \in 1..FoldLen |-> ReadingAt(g, fld, f, sd, i)]

\* the record json.load returns for fold f of group g: every field of the
\* group except a missing one
Disk(g, f) ==
    LET gone == IF missing # None /\ missing[1] = <<g, f>> THEN {missing[2]} ELSE {}
    IN [fld \in Fields(g) \ gone |-> FieldData(g, fld, f, seed)]

\* elementwise unary minus of an array
Neg(a) == [i \in 1..Len(a) |-> -a[i]]

\* np.argmax(logits, axis=-1): per row the first index of the maximum, from 0
np_argmax(rows) ==
    [i \in 1..Len(rows) |->
        (CHOOSE c \in 1..Len(rows[i]) :
            /\ \A d \in 1..Len(rows[i]) : rows[i][c] >= rows[i][d]
            /\ \A d \in 1..(c - 1) : rows[i][d] < rows[i][c]) - 1]

RECURSIVE FracSum(_)
FracSum(qs) == IF qs = <<>> THEN <<0, 1>> ELSE FracAdd(FracSum(Front(qs)), Last(qs))

\* np.mean of a non-empty array of quotients
np_mean(qs) == LET t == FracSum(qs) IN Frac(t[1], t[2] * Len(qs))

\* variant of Uncertainty that reads every field without a sign change
Uncertainty_as_read(b, foldr) == foldr[Blocks[b].unc]

\* the `uncertainty = ...` line of block b
Uncertainty(b, foldr) ==
    IF Blocks[b].negate THEN Neg(foldr[Blocks[b].unc]) ELSE foldr[Blocks[b].unc]

FoldError(e) ==
    [err |-> e, rcc |-> <<0, 1>>, rcc_y |-> <<>>, rpp |-> <<0, 1>>,
     roc |-> <<0, 1>>, call |-> None]

\* the body of the `for foldr in five_fold_results` loop of block b up to
\* the appends: its values, or the first exception it raises
FoldBody(b, foldr) ==
    LET blk == Blocks[b]
    IN IF "labels" \notin DOMAIN foldr \/ blk.score \notin DOMAIN foldr
          \/ blk.unc \notin DOMAIN foldr
       THEN FoldError("KeyError")
       ELSE
       LET tr == foldr["labels"]
           pr == IF blk.score = "logits" THEN np_argmax(foldr["logits"])
                 ELSE foldr[blk.score]
           uncertainty == Uncertainty(b, foldr)
           rk == calc_risk(pr, tr, blk.mode, low, high, TRUE)
           rcc == calc_rcc_auc(Neg(uncertainty), rk.value)
           rpp == calc_rpp(Neg(uncertainty), rk.value)
           roc == calc_roc_auc(pr, tr, Neg(uncertainty), blk.mode, low, high)
       IN IF rk.err # "none" THEN FoldError(rk.err)
          ELSE IF rcc.err # "none" THEN FoldError(rcc.err)
          ELSE IF rpp.err # "none" THEN FoldError(rpp.err)
          ELSE IF roc.err # "none" THEN FoldError(roc.err)
          ELSE [err |-> "none", rcc |-> rcc.auc, rcc_y |-> rcc.points_y,
                rpp |-> rpp.value, roc |-> roc.value,
                call |-> Some([field |-> blk.unc,
                               rcc_conf |-> Neg(uncertainty),
                               rpp_conf |-> Neg(uncertainty),
                               roc_conf |-> Neg(uncertainty),
                               negations |-> IF blk.negate THEN 2 ELSE 1])]

\* variant of ResetAcc that leaves the accumulators as they are
ResetAcc_keeps == UNCHANGED accVars

\* fresults_rcc, fresults_rpp, fresults_roc, fresults_rcc_y = [], [], [], []
ResetAcc ==
    /\ fresults_rcc' = <<>>
    /\ fresults_rpp' = <<>>
    /\ fresults_roc' = <<>>
    /\ fresults_rcc_y' = <<>>

\* state at the top of main; the files and cfg.aes.prompt_id are input
AggInit ==
    /\ seed \in 1..MaxSeed
    /\ missing \in {None} \cup
         UNION {{<< <<g, f>>, fld >> : f \in 0..(NFolds - 1), fld \in Fields(g)} :
                  g \in Groups}
    /\ \E lh \in Ranges : low = lh[1] /\ high = lh[2]
    /\ five_fold_results = <<>>
    /\ block = 1
    /\ apc = "begin"
    /\ fold = 0
    /\ fresults_rcc = <<>> /\ fresults_rpp = <<>> /\ fresults_roc = <<>>
    /\ fresults_rcc_y = <<>>
    /\ out_files = [n \in Names |-> None]
    /\ written = <<>>
    /\ last_call = None
    /\ agg_err = None
    /\ pred = <<>> /\ true = <<>> /\ reg_or_class = "reg" /\ binary = TRUE
    /\ risk_out = None /\ roc_out = None
    /\ IdleController
    /\ IdleLoop
    /\ IdleMetrics
    /\ IdleEval

aggFrame == <<esVars, loopVars, metricVars, riskVars, evalVars, seed, missing>>

\* what precedes the fold loop of a block: the reload of five_fold_results
\* where the block has one, and the reset of the accumulators
BeginBlock ==
    /\ apc = "begin"
    /\ five_fold_results' =
         IF Blocks[block].load
         THEN [f \in 1..NFolds |-> Disk(Blocks[block].group, f - 1)]
         ELSE five_fold_results
    /\ ResetAcc
    /\ fold' = 0
    /\ apc' = "fold"
    /\ UNCHANGED <<aggFrame, block, out_files, written, last_call, agg_err>>

\* one round of `for foldr in five_fold_results`
FoldRound ==
    LET r == FoldBody(block, five_fold_results[fold + 1])
    IN IF r.err # "none"
       THEN /\ agg_err' = Some(r.err)
            /\ apc' = "aborted"
            /\ UNCHANGED <<fold, accVars, last_call>>
       ELSE /\ fresults_rcc' = Append(fresults_rcc, r.rcc)
            /\ fresults_rcc_y' = Append(fresults_rcc_y, r.rcc_y)
            /\ fresults_roc' = Append(fresults_roc, r.roc)
            /\ fresults_rpp' = Append(fresults_rpp, r.rpp)
            /\ last_call' = Some([block |-> block, fold |-> fold] @@ r.call[1])
            /\ fold' = fold + 1
            /\ UNCHANGED <<apc, agg_err>>

\* variant of FoldStep that passes over a fold whose record lacks a field
FoldStep_skips_missing ==
    /\ apc = "fold"
    /\ fold < Len(five_fold_results)
    /\ IF FoldBody(block, five_fold_results[fold + 1]).err = "KeyError"
       THEN fold' = fold + 1 /\ UNCHANGED <<apc, agg_err, accVars, last_call>>
       ELSE FoldRound
    /\ UNCHANGED <<aggFrame, five_fold_results, block, out_files, written>>

FoldStep ==
    /\ apc = "fold"
    /\ fold < Len(five_fold_results)
    /\ FoldRound
    /\ UNCHANGED <<aggFrame, five_fold_results, block, out_files, written>>

\* variant of WriteResult that ends the run one method early
WriteResult_ends_early ==
    /\ apc = "fold"
    /\ fold >= Len(five_fold_results)
    /\ LET results_dic == [rcc |-> np_mean(fresults_rcc),
                           rpp |-> np_mean(fresults_rpp),
                           roc |-> np_mean(fresults_roc),
                           rcc_y |-> fresults_rcc_y]
       IN out_files' = [out_files EXCEPT ![Blocks[block].name] = Some(results_dic)]
    /\ written' = Append(written, Blocks[block].name)
    /\ IF block < NBlocks - 1
       THEN block' = block + 1 /\ apc' = "begin"
       ELSE block' = block /\ apc' = "done"
    /\ UNCHANGED <<aggFrame, five_fold_results, fold, accVars, last_call, agg_err>>

\* after the loop: results_dic, json.dump to save_dir_path + '/' + name
WriteResult ==
    /\ apc = "fold"
    /\ fold >= Len(five_fold_results)
    /\ LET results_dic == [rcc |-> np_mean(fresults_rcc),
                           rpp |-> np_mean(fresults_rpp),
                           roc |-> np_mean(fresults_roc),
                           rcc_y |-> fresults_rcc_y]
       IN out_files' = [out_files EXCEPT ![Blocks[block].name] = Some(results_dic)]
    /\ written' = Append(written, Blocks[block].name)
    /\ IF block < NBlocks
       THEN block' = block + 1 /\ apc' = "begin"
       ELSE block' = block /\ apc' = "done"
    /\ UNCHANGED <<aggFrame, five_fold_results, fold, accVars, last_call, agg_err>>

AggNext == BeginBlock \/ FoldStep \/ WriteResult

AggSpec == AggInit /\ [][AggNext]_vars

----------------------------------------------------------------------------
\* class_eval.main and mix_test.main: the MP field of a fold record

\* The logits of an example are given by their exponentials: entry c of a
\* row is exp(logit of class c - 1), a positive integer, so that softmax is
\* an exact quotient.  A stored number is a quotient <<num, den>>.
RECURSIVE SumSeq(_)
SumSeq(q) == IF q = <<>> THEN 0 ELSE SumSeq(Front(q)) + Last(q)

\* nn.Softmax(dim=1) on one row
softmax(row) == [c \in 1..Len(row) |-> Frac(row[c], SumSeq(row))]

\* q1 < q2 for quotients with positive denominators
FracLess(q1, q2) == q1[1] * q2[2] < q2[1] * q1[2]

\* torch.argmax(probs, dim=-1) on one row: the first index of the maximum,
\* counted from 0
torch_argmax(ps) ==
    (CHOOSE c \in 1..Len(ps) :
        /\ \A d \in 1..Len(ps) : ~FracLess(ps[c], ps[d])
        /\ \A d \in 1..(c - 1) : FracLess(ps[d], ps[c])) - 1

\* the test set is input: logits of every example over num_labels classes
\* and, for the mixed model, a score in units of 1 / ScoreDen
EvalInit ==
    /\ num_labels \in 2..MaxLabels
    /\ \E n \in 1..MaxEx :
        /\ exp_logits \in [1..n -> [1..num_labels -> 1..MaxW]]
        /\ mix_score \in [1..n -> Scores]
    /\ class_results = None
    /\ mix_results = None
    /\ IdleController
    /\ IdleLoop
    /\ IdleMetrics
    /\ IdleRisk
    /\ IdleAgg

evalFrame == <<esVars, loopVars, metricVars, riskVars, aggVars,
               num_labels, exp_logits, mix_score>>

\* class_eval.main: probs = softmax(logits);
\* max_prob = torch.argmax(probs, dim=-1); eval_results.update({'MP': max_prob})
ClassEval ==
    /\ class_results = None
    /\ LET probs == [i \in 1..Len(exp_logits) |-> softmax(exp_logits[i])]
           max_prob == [i \in 1..Len(probs) |-> Frac(torch_argmax(probs[i]), 1)]
       IN class_results' = Some([MP |-> max_prob])
    /\ UNCHANGED <<evalFrame, mix_results>>

\* mix_test.main: pred_int_score = round(score * (high - low)) with
\* high - low + 1 classes; mix_conf = pred_probs[i, pred_int_score[i]];
\* max_prob = pred_probs[i, argmax(pred_probs[i])]
MixTest ==
    /\ mix_results = None
    /\ LET n == Len(exp_logits)
           pred_int_score ==
               [i \in 1..n |-> Int32(NpRound(mix_score[i] * (num_labels - 1), ScoreDen))]
           pred_probs == [i \in 1..n |-> softmax(exp_logits[i])]
           mix_trust == [i \in 1..n |-> pred_probs[i][pred_int_score[i] + 1]]
           max_prob == [i \in 1..n |-> pred_probs[i][torch_argmax(pred_probs[i]) + 1]]
       IN mix_results' = Some([mix_conf |-> mix_trust, MP |-> max_prob])
    /\ UNCHANGED <<evalFrame, class_results>>

EvalNext == ClassEval \/ MixTest

EvalSpec == EvalInit /\ [][EvalNext]_vars

----------------------------------------------------------------------------
\* Properties of the controller (specification Spec)

\* an observe call has just been made: obs grew by the loss that was passed
Observed == Len(obs') = Len(obs) + 1

\* index of the earliest observation attaining the minimum loss of s
EarliestMin(s) ==
    CHOOSE i \in 1..Len(s) :
        /\ \A j \in 1..Len(s) : s[i] <= s[j]
        /\ \A j \in 1..(i - 1) : s[j] > s[i]

\* C1: an observe call after the first whose score = -loss is <= bestScore
\* (a tie included) leaves bestScore and the checkpoint alone, adds exactly 1
\* to counter and sets stopped when the new counter reaches patience; so for
\* losses [5,4,4,4] and patience 2 the counter is 1 after step 3 and the
\* controller is stopped at step 4.
C1_NoImprovementStep ==
    /\ [][(Observed /\ best_score # None /\ -Last(obs') <= best_score[1])
            => /\ best_score' = best_score
               /\ ckpt' = ckpt
               /\ writes' = writes
               /\ counter' = counter + 1
               /\ (counter' >= patience => early_stop')]_vars
    /\ []((patience = 2 /\ obs = <<5, 4, 4>>) => (counter = 1 /\ ~early_stop))
    /\ []((patience = 2 /\ obs = <<5, 4, 4, 4>>) => early_stop)

C1_Witness ==
    patience = 2 /\ obs = <<5, 4, 4, 4>> /\ counter = 2 /\ early_stop

\* C2: after the first observe call bestScore = -loss, the model passed in
\* that call is stored at the checkpoint path, counter = 0 and stopped is
\* false, for both EarlyStopping classes.
C2_FirstCallCheckpoints ==
    Len(obs) = 1 =>
        /\ best_score = Some(-obs[1])
        /\ ckpt = Some(1)
        /\ writes = 1
        /\ counter = 0
        /\ ~early_stop

\* C3: an observe call after the first whose score is strictly greater than
\* bestScore sets bestScore to that score, stores the model passed in that
\* call and resets counter to 0, whatever counter was.
C3_ImprovementStep ==
    [][(Observed /\ best_score # None /\ -Last(obs') > best_score[1])
         => /\ best_score' = Some(-Last(obs'))
            /\ ckpt' = Some(Len(obs'))
            /\ writes' = writes + 1
            /\ counter' = 0]_vars

C3_Witness ==
    obs = <<5, 5, 4>> /\ patience = 3 /\ counter = 0 /\ ckpt = Some(3)

\* C4: once stopped is true it stays true over every later observe call,
\* improving or not.
C4_StoppedIrreversible == [][early_stop => early_stop']_vars

C4_Witness ==
    patience = 1 /\ obs = <<5, 5, 4, 4>> /\ early_stop

\* C5 as stated: once stopped, a further observe call changes neither
\* bestScore nor counter and writes no checkpoint.
C5_StoppedIsFrozen ==
    [][(early_stop /\ Observed)
         => /\ best_score' = best_score
            /\ counter' = counter
            /\ writes' = writes]_vars

\* C5 amended: once stopped, a further observe call keeps stopped true but
\* still makes the ordinary transition: a non-improving loss adds 1 to
\* counter and leaves bestScore and the checkpoint alone, an improving loss
\* replaces bestScore, writes a checkpoint and resets counter.
C5_StoppedStillTransitions ==
    [][(early_stop /\ Observed)
         => /\ early_stop'
            /\ IF -Last(obs') <= best_score[1]
               THEN /\ counter' = counter + 1
                    /\ best_score' = best_score
                    /\ ckpt' = ckpt
                    /\ writes' = writes
               ELSE /\ counter' = 0
                    /\ best_score' = Some(-Last(obs'))
                    /\ ckpt' = Some(Len(obs'))
                    /\ writes' = writes + 1]_vars

C5_Witness ==
    patience = 1 /\ obs = <<5, 5, 5, 4>> /\ early_stop /\ counter = 0
        /\ best_score = Some(-4) /\ ckpt = Some(4)

\* C7: after every observe call, from the first one on, the snapshot at the
\* checkpoint path is the model passed in the earliest observation that
\* attains the minimum loss seen so far.
C7_CheckpointIsBest ==
    Len(obs) >= 1 => ckpt = Some(EarliestMin(obs))

----------------------------------------------------------------------------
\* Properties of the training loop (specification FairTrainSpec)

\* C6: the controller is called exactly once per epoch, after that epoch's
\* training and calibration; once a call has left stopped = true no training
\* step, calibration fit or observe call follows; and the loop ends after at
\* most n_epochs epochs.
C6_LoopHaltsOnStop ==
    /\ [][Observed => (nTrain = Len(obs') /\ nCalib = Len(obs'))]_vars
    /\ [](pc = "check" =>
            (Len(obs) = epoch + 1 /\ nTrain = epoch + 1 /\ nCalib = epoch + 1))
    /\ [][early_stop =>
            (nTrain' = nTrain /\ nCalib' = nCalib /\ obs' = obs)]_vars
    /\ [](nTrain <= n_epochs)
    /\ [](pc = "done" =>
            (Len(obs) = nTrain /\ (early_stop \/ nTrain = n_epochs)))
    /\ <>(pc = "done")

C6_Witness ==
    pc = "done" /\ early_stop /\ nTrain >= 2 /\ nTrain < n_epochs

----------------------------------------------------------------------------
\* Properties of the metrics (specification MetricSpec)

\* the inputs are non-empty and of equal length
Paired == Len(conf) >= 1 /\ Len(conf) = Len(risk)

\* the example at place k when the examples are ordered by confidence
\* descending and, among equal confidences, by input position
DescAt(k) ==
    CHOOSE i \in 1..Len(conf) :
        Cardinality({j \in 1..Len(conf) :
            conf[j] > conf[i] \/ (conf[j] = conf[i] /\ j < i)}) = k - 1

\* the example at place k when the examples are ordered by confidence
\* ascending and, among equal confidences, by input position
AscAt(k) ==
    CHOOSE i \in 1..Len(conf) :
        Cardinality({j \in 1..Len(conf) :
            conf[j] < conf[i] \/ (conf[j] = conf[i] /\ j < i)}) = k - 1

RECURSIVE RiskSumDesc(_)
\* sum of the risks of the first k examples in descending order
RiskSumDesc(k) == IF k = 0 THEN 0 ELSE RiskSumDesc(k - 1) + risk[DescAt(k)]

RECURSIVE Factorial(_)
Factorial(n) == IF n = 0 THEN 1 ELSE n * Factorial(n - 1)

RECURSIVE ScaledAvgSum(_, _)
\* f times the sum over the first k places of RiskSumDesc(place) / place,
\* for f a multiple of every place
ScaledAvgSum(k, f) ==
    IF k = 0 THEN 0 ELSE ScaledAvgSum(k - 1, f) + RiskSumDesc(k) * (f \div k)

\* C8: for non-empty inputs of equal length n, calc_rcc_auc orders by
\* confidence descending, ties in input order, and returns avgRisk[k] = sum of
\* the first k sorted risks / k, coverage[k] = k / n (k counted from 1) and
\* auc = the sum of all avgRisk[k]; calc_rcc_auc([3,2,1],[0,1,1]) has
\* auc = 0/1 + 1/2 + 2/3 = 7/6 and coverage [1/3, 2/3, 1].
C8_RccAuc ==
    (rcc_out # None /\ Paired) =>
        LET out == rcc_out[1]
            n == Len(conf)
            f == Factorial(n)
        IN /\ out.err = "none"
           /\ Len(out.points_x) = n /\ Len(out.points_y) = n
           /\ \A k \in 1..n :
                /\ out.points_y[k][1] * k = out.points_y[k][2] * RiskSumDesc(k)
                /\ out.points_x[k][1] * n = out.points_x[k][2] * k
           /\ out.auc[1] * f = out.auc[2] * ScaledAvgSum(n, f)
           /\ (conf = <<3, 2, 1>> /\ risk = <<0, 1, 1>>) =>
                /\ out.auc = <<7, 6>>
                /\ out.points_x = << <<1, 3>>, <<2, 3>>, <<1, 1>> >>

C8_Witness ==
    /\ conf = <<2, 3, 2>> /\ risk = <<1, 0, 0>>
    /\ rcc_out # None
    /\ rcc_out[1].points_y = << <<0, 1>>, <<1, 2>>, <<1, 3>> >>
    /\ rcc_out[1].auc = <<5, 6>>

\* number of pairs of places i <= j in ascending order with risk[i] < risk[j]
AscPairCount ==
    LET n == Len(conf)
    IN Cardinality({ij \in (1..n) \X (1..n) :
            ij[1] <= ij[2] /\ risk[AscAt(ij[1])] < risk[AscAt(ij[2])]})

\* C9: for non-empty inputs of equal length n, calc_rpp orders by confidence
\* ascending, ties in input order, and returns count / n^2 with count the
\* number of places i <= j in that order with risk[i] < risk[j]; for
\* conf = [1,2,3], risk = [1,0,0] that count is 0, so the result is 0/9.
C9_Rpp ==
    (rpp_out # None /\ Paired) =>
        LET out == rpp_out[1]
            n == Len(conf)
        IN /\ out.err = "none"
           /\ out.value[1] * n * n = out.value[2] * AscPairCount
           /\ (conf = <<1, 2, 3>> /\ risk = <<1, 0, 0>>) => out.value = <<0, 1>>

C9_Witness ==
    /\ conf = <<3, 1, 1>> /\ risk = <<1, 0, 1>>
    /\ rpp_out # None
    /\ rpp_out[1].value = <<2, 9>>

\* the bijections of 1..n
Perms(n) == {q \in [1..n -> 1..n] : \A a, b \in 1..n : q[a] = q[b] => a = b}

\* the input sequence s with its examples rearranged by q
Rearranged(s, q) == [k \in 1..Len(s) |-> s[q[k]]]

\* pairs of examples with different confidences in which the one with the
\* lower confidence has the strictly lower risk
StrictReversals ==
    LET n == Len(conf)
    IN {ab \in (1..n) \X (1..n) :
            conf[ab[1]] < conf[ab[2]] /\ risk[ab[1]] < risk[ab[2]]}

\* pairs of examples with equal confidence in which the one that comes
\* first in the input has the strictly lower risk
TieReversals ==
    LET n == Len(conf)
    IN {ab \in (1..n) \X (1..n) :
            /\ ab[1] < ab[2]
            /\ conf[ab[1]] = conf[ab[2]]
            /\ risk[ab[1]] < risk[ab[2]]}

\* C10 as stated: calc_rpp counts only pairs of different confidences in
\* which the lower-confidence example has the strictly lower risk, and the
\* result does not change when examples of equal confidence change places
\* in the input.
C10_OnlyStrictReversals ==
    (rpp_out # None /\ Paired) =>
        LET out == rpp_out[1]
            n == Len(conf)
        IN /\ out.value[1] * n * n = out.value[2] * Cardinality(StrictReversals)
           /\ \A q \in Perms(n) :
                Rearranged(conf, q) = conf =>
                    calc_rpp(Rearranged(conf, q), Rearranged(risk, q)) = out

\* C10 amended: calc_rpp counts the pairs in which the lower-confidence
\* example has the strictly lower risk and also the pairs of equal confidence
\* in which the example that comes first in the input has the strictly lower
\* risk; when all confidences differ the result is the same for every
\* rearrangement of the examples.
C10_ReversalsAndTies ==
    (rpp_out # None /\ Paired) =>
        LET out == rpp_out[1]
            n == Len(conf)
        IN /\ out.value[1] * n * n =
                out.value[2] * (Cardinality(StrictReversals) + Cardinality(TieReversals))
           /\ (\A a, b \in 1..n : conf[a] = conf[b] => a = b) =>
                \A q \in Perms(n) :
                    calc_rpp(Rearranged(conf, q), Rearranged(risk, q)) = out

C10_Witness ==
    /\ conf = <<1, 1, 2>> /\ risk = <<0, 1, 1>>
    /\ rpp_out # None
    /\ rpp_out[1].value = <<2, 9>>
    /\ calc_rpp(<<1, 1, 2>>, <<1, 0, 1>>).value = <<1, 9>>

----------------------------------------------------------------------------
\* Further properties of the controller (specification Spec)

\* the largest of the scores -loss over the observations s
MaxScore(s) == CHOOSE v \in {-s[i] : i \in 1..Len(s)} : \A j \in 1..Len(s) : v >= -s[j]

\* number of observations after the latest one that improved on all before it
SinceImprovement(s) == Len(s) - EarliestMin(s)

\* C19: after any non-empty sequence of observe calls, calls after stopping
\* included, bestScore is the maximum of -loss over all observations,
\* val_loss_min = -bestScore, and bestScore never decreases.
C19_BestScoreIsMax ==
    /\ [](Len(obs) >= 1 =>
            (best_score = Some(MaxScore(obs)) /\ val_loss_min = -best_score[1]))
    /\ [][best_score # None => best_score'[1] >= best_score[1]]_vars

C19_Witness ==
    /\ patience = 1 /\ obs = <<5, 5, 4, 3>> /\ early_stop
    /\ best_score = Some(-3) /\ val_loss_min = 3

\* C20: for patience >= 1, while stopped is false 0 <= counter < patience and
\* counter is the number of consecutive non-improving observations since the
\* latest improvement (or the first observation); stopped first becomes true
\* exactly at the patience-th consecutive non-improving observation.
C20_CounterBelowPatience ==
    /\ []((patience >= 1 /\ ~early_stop) =>
            /\ 0 <= counter /\ counter < patience
            /\ Len(obs) >= 1 => counter = SinceImprovement(obs))
    /\ [][(patience >= 1 /\ ~early_stop /\ Observed) =>
            (early_stop' <=> (Len(obs) >= 1 /\ SinceImprovement(obs') = patience))]_vars

C20_Witness ==
    /\ patience = 2 /\ obs = <<4, 3, 3, 5>> /\ counter = 2 /\ early_stop

----------------------------------------------------------------------------
\* Calibration state in the training loop (specification FairTrainSpec)

\* C18: the scale S from which an epoch's fit starts is the initial value 1.0,
\* whatever was fitted in earlier epochs.
C18_FitStartsFromInitial ==
    s_start # None => s_start = Some(1)

----------------------------------------------------------------------------
\* Properties of calc_risk and calc_roc_auc (specification RiskSpec)

\* the integer nearest to x / ScoreDen * (high - low) + low, the even one of
\* the two when x lies halfway between them
Grade(x) ==
    LET n == x * (high - low) + low * ScoreDen
        dist(g) == IF n >= g * ScoreDen THEN n - g * ScoreDen ELSE g * ScoreDen - n
    IN CHOOSE g \in (low - 1)..(high + 1) :
        /\ 2 * dist(g) <= ScoreDen
        /\ 2 * dist(g) = ScoreDen => g % 2 = 0

\* C11: in regression mode with binary = true, calc_risk of equally long
\* pred and true returns a sequence of that length with 1 where the rounded
\* grades of pred and true differ and 0 elsewhere; it is all zeros when all
\* rounded grades agree, and 1 at one index only when only that prediction
\* lies across a grade boundary.
C11_BinaryRegressionRisk ==
    (risk_out # None /\ reg_or_class = "reg" /\ binary /\ Len(pred) = Len(true)) =>
        LET out == risk_out[1]
            n == Len(pred)
            off == {i \in 1..n : Grade(pred[i]) # Grade(true[i])}
        IN /\ out.err = "none"
           /\ Len(out.value) = n
           /\ \A i \in 1..n : out.value[i] = IF i \in off THEN 1 ELSE 0
           /\ off = {} => \A i \in 1..n : out.value[i] = 0
           /\ \A k \in 1..n :
                off = {k} => out.value = [i \in 1..n |-> IF i = k THEN 1 ELSE 0]

C11_Witness ==
    /\ reg_or_class = "reg" /\ binary /\ low = 0 /\ high = 1
    /\ pred = <<1, 2>> /\ true = <<0, 1>>
    /\ risk_out = Some([err |-> "none", value |-> <<0, 1>>])

\* C12: a length mismatch between the paired inputs is rejected with an
\* error and never yields a value: calc_rcc_auc and calc_rpp for confidence
\* and risk of different lengths, calc_risk for pred and true of different
\* lengths.
C12_MismatchRejected ==
    /\ (rcc_out # None /\ Len(conf) # Len(risk)) => rcc_out[1].err # "none"
    /\ (rpp_out # None /\ Len(conf) # Len(risk)) => rpp_out[1].err # "none"
    /\ (risk_out # None /\ Len(pred) # Len(true)) => risk_out[1].err # "none"

\* the prediction of example i counts as correct
Correct(i) ==
    IF reg_or_class = "reg" THEN Grade(pred[i]) = Grade(true[i])
    ELSE pred[i] = true[i]

\* C13: calc_roc_auc scores the correctness indicator (rounded grades equal
\* in regression mode, values equal in classification mode) with the
\* confidence; when every correct example has confidence 1, every incorrect
\* one confidence 0 and both kinds occur, the result is exactly 1.
C13_RocAuc ==
    (roc_out # None /\ Len(pred) = Len(true)) =>
        LET n == Len(pred)
            indicator == [i \in 1..n |-> Correct(i)]
        IN /\ roc_out[1] = roc_auc_score(indicator, conf)
           /\ ( /\ \E i \in 1..n : Correct(i)
                /\ \E i \in 1..n : ~Correct(i)
                /\ \A i \in 1..n : conf[i] = IF Correct(i) THEN 1 ELSE 0 )
              => roc_out[1] = [err |-> "none", value |-> <<1, 1>>]

C13_Witness ==
    /\ reg_or_class = "reg" /\ low = 0 /\ high = 1
    /\ pred = <<1, 2>> /\ true = <<0, 1>> /\ conf = <<1, 0>>
    /\ roc_out = Some([err |-> "none", value |-> <<1, 1>>])

----------------------------------------------------------------------------
\* Properties of the evaluation over methods and folds (specification AggSpec)

\* the fold record a recorded call was made on
CallRecord(c) == Disk(Blocks[c.block].group, c.fold)

SameConfidence(c) == c.rcc_conf = c.rpp_conf /\ c.rpp_conf = c.roc_conf

SignTimesField(c, sign) ==
    LET fld == CallRecord(c)[c.field]
    IN /\ Len(c.rcc_conf) = Len(fld)
       /\ \A i \in 1..Len(fld) : c.rcc_conf[i] = sign * fld[i]

\* the sign column of the descriptor table, by result name
TableSign ==
    [n \in Names |->
        IF n \in {"reg_trust_score", "class_dp_entropy", "class_dp_epistemic",
                  "class_mul_entropy", "class_mul_epistemic"}
        THEN 1 ELSE -1]

\* the fields whose larger values mean a more trustworthy prediction
ConfidenceLike == {"trust_score", "MP", "mcdp_MP", "ense_MP", "mix_conf"}

\* C14 as stated: for every method and fold the one confidence sequence
\* handed to calc_rcc_auc, calc_rpp and calc_roc_auc is the descriptor
\* table's sign times the method's uncertainty field, and no field is
\* negated twice.
C14_TableSigns ==
    last_call # None =>
        LET c == last_call[1]
        IN /\ SameConfidence(c)
           /\ SignTimesField(c, TableSign[Blocks[c.block].name])
           /\ c.negations <= 1

\* C14 amended: for every method and fold the one confidence sequence handed
\* to calc_rcc_auc, calc_rpp and calc_roc_auc is the field itself for the
\* confidence-like fields (trust_score, MP, mcdp_MP, ense_MP, mix_conf),
\* which are negated twice on the way, and minus the field for every other
\* uncertainty field (variances, entropies, epistemic uncertainties), which
\* are negated once.
C14_OrientedConfidence ==
    last_call # None =>
        LET c == last_call[1]
        IN /\ SameConfidence(c)
           /\ IF c.field \in ConfidenceLike
              THEN SignTimesField(c, 1) /\ c.negations = 2
              ELSE SignTimesField(c, -1) /\ c.negations = 1

\* a call of the classification max-probability method on the last fold
C14_Witness ==
    /\ last_call # None
    /\ last_call[1].block = 5
    /\ last_call[1].field = "MP"
    /\ last_call[1].fold = NFolds - 1
    /\ \A i \in 1..FoldLen : last_call[1].rcc_conf[i] > 0

BlockOf(n) == CHOOSE b \in 1..NBlocks : Blocks[b].name = n

\* what the loop body of the method named n yields on the files of the
\* folds 0..4, entry f + 1 for fold f
OnFolds(n) ==
    [k \in 1..5 |-> FoldBody(BlockOf(n), Disk(Blocks[BlockOf(n)].group, k - 1))]

\* q is the arithmetic mean of the quotients qs
IsMeanOf(q, qs) ==
    LET t == FracSum(qs) IN q[1] * t[2] * Len(qs) = t[1] * q[2]

\* C15: every emitted result holds an rcc_y list of exactly 5 curves, entry
\* f being the avgRisk sequence of that method on fold f in the order 0..4,
\* and its rcc, rpp and roc are the arithmetic means of exactly those 5
\* folds' values for that method.  Stated of each result in the state its
\* write leaves, and no file exists that was not written.
C15_PerMethodFoldOrder ==
    /\ \A n \in Names :
        out_files[n] # None => \E i \in 1..Len(written) : written[i] = n
    /\ (written # <<>> /\ apc \in {"begin", "done"}) =>
        LET n == Last(written)
            r == out_files[n][1]
            on == OnFolds(n)
        IN /\ Len(r.rcc_y) = 5
           /\ \A f \in 0..4 : r.rcc_y[f + 1] = on[f + 1].rcc_y
           /\ IsMeanOf(r.rcc, [k \in 1..5 |-> on[k].rcc])
           /\ IsMeanOf(r.rpp, [k \in 1..5 |-> on[k].rpp])
           /\ IsMeanOf(r.roc, [k \in 1..5 |-> on[k].roc])

\* the second method has been written, after a first one had filled the
\* accumulators, and its curves of folds 0 and 1 differ
C15_Witness ==
    /\ out_files["simplevar"] # None
    /\ out_files["reg_trust_score"] # None
    /\ out_files["reg_trust_score"][1].rcc_y[1] # out_files["reg_trust_score"][1].rcc_y[2]

NoDuplicates(q) == \A i, j \in 1..Len(q) : q[i] = q[j] => i = j

WrittenOnce ==
    /\ NoDuplicates(written)
    /\ \A n \in Names : out_files[n] # None <=> \E i \in 1..Len(written) : written[i] = n

\* C16 as stated: a complete run covers exactly 13 methods and writes
\* exactly one result per method, each to its own path.
C16_ThirteenMethods ==
    /\ WrittenOnce
    /\ apc = "done" => Len(written) = 13 /\ Cardinality(Names) = 13

\* C16 amended: a complete run covers exactly 14 methods and writes exactly
\* one result per method, each to its own path (no method is written twice
\* and no two methods share a path).
C16_FourteenMethods ==
    /\ WrittenOnce
    /\ apc = "done" => Len(written) = 14 /\ Cardinality(Names) = 14

C16_Witness == apc = "done" /\ Len(written) = 14 /\ written[14] = "mixMP"

\* block b reads the field that is missing from some fold record
Requires(b) ==
    /\ missing # None
    /\ Blocks[b].group = missing[1][1]
    /\ missing[2] \in {"labels", Blocks[b].score, Blocks[b].unc}

\* C17: if a fold's record lacks a field a method requires, the method's
\* aggregation aborts with an error before any result for it is written:
\* no result for the method exists, the run never gets past the method and
\* its loop never gets past the fold with the missing field.
C17_MissingFieldAborts ==
    \A b \in 1..NBlocks :
        Requires(b) =>
            /\ out_files[Blocks[b].name] = None
            /\ block <= b
            /\ apc # "done"
            /\ (block = b /\ apc # "begin") =>
                   /\ fold <= missing[1][2]
                   /\ Len(fresults_rcc) <= missing[1][2]
                   /\ (fold = missing[1][2] /\ apc = "aborted") => agg_err = Some("KeyError")

\* the run stopped in the seventh method at fold 2, whose record has no
\* mcdp_MP, after two folds had gone through
C17_Witness ==
    /\ missing = << <<"class", 2>>, "mcdp_MP" >>
    /\ apc = "aborted"
    /\ agg_err = Some("KeyError")
    /\ block = 7
    /\ fold = 2
    /\ Len(fresults_rcc) = 2
    /\ Len(written) = 6

----------------------------------------------------------------------------
\* Properties of the stored MP field (specification EvalSpec)

\* q is the largest softmax probability of the row of exponentials
IsMaxProbability(q, row) ==
    /\ \E c \in 1..Len(row) : q[1] * SumSeq(row) = row[c] * q[2]
    /\ \A c \in 1..Len(row) : q[1] * SumSeq(row) >= row[c] * q[2]

\* C21: the MP field class_eval.py stores is, for each example, the maximum
\* softmax probability over the classes, a value in (0, 1], the same
\* function of the logits that mix_test.py stores as MP, and not the index
\* of the most probable class.
C21_MPIsMaxProbability ==
    class_results # None =>
        LET mp == class_results[1].MP
        IN /\ Len(mp) = Len(exp_logits)
           /\ \A i \in 1..Len(mp) :
                /\ IsMaxProbability(mp[i], exp_logits[i])
                /\ 0 < mp[i][1] /\ mp[i][1] <= mp[i][2]
           /\ mix_results # None => mp = mix_results[1].MP

====
